---- MODULE Spec2Model ----
(***************************************************************************)
(* Request-to-rule resolution of the mock API controller                   *)
(* (src/src/app.controller.ts, AppController.getRepoPage and               *)
(* AppController.getRequestedData), with the deferred notification timer   *)
(* it arms.                                                                *)
(*                                                                         *)
(* Strings that the code takes apart are modelled by their parts: a path   *)
(* string is the sequence of its "/"-separated segments ("item/7/" is      *)
(* <<"item", "7", "">>, "/x" is <<"", "x">>, "" is <<>>); an absolute,     *)
(* normalised path is the sequence of the segments after its leading "/".  *)
(* A JSON value is a record [kind, lit, fields]; an object's fields are    *)
(* the sequence of its [key, value] pairs in insertion order.              *)
(***************************************************************************)
EXTENDS Naturals, Sequences, FiniteSets, TLC

VARIABLES reqs, timers, alive

vars == <<reqs, timers, alive>>

----------------------------------------------------------------------------
(* Program constants *)

configFileName == ".mockapi.yml"

MsPerSecond == 1000

CallTimeoutMs == 5000

----------------------------------------------------------------------------
(* Bounds of the model *)

MaxRules == 2

MaxTimeout == 2

MaxEntries == 2

----------------------------------------------------------------------------
(* JSON values *)

JObj(fs) == [kind |-> "object", lit |-> "", fields |-> fs]

JStr(s) == [kind |-> "string", lit |-> s, fields |-> <<>>]

JNum(s) == [kind |-> "number", lit |-> s, fields |-> <<>>]

JBool(s) == [kind |-> "boolean", lit |-> s, fields |-> <<>>]

JNull == [kind |-> "null", lit |-> "null", fields |-> <<>>]

JUndefined == [kind |-> "undefined", lit |-> "undefined", fields |-> <<>>]

Field(k, v) == [key |-> k, value |-> v]

\* JavaScript truthiness, as tested by `!requestedData` and by
\* `requestBody[notificationConfig.followProp]`.
Truthy(v) ==
    CASE v.kind = "object" -> TRUE
      [] v.kind = "string" -> v.lit # ""
      [] v.kind = "number" -> v.lit \notin {"0", "NaN"}
      [] v.kind = "boolean" -> v.lit = "true"
      [] OTHER -> FALSE

\* Object.keys(o): the keys in insertion order.
ObjectKeys(fs) == [i \in 1..Len(fs) |-> fs[i].key]

\* o[k]: the value under key k, undefined when o has no such key.
Get(fs, k) ==
    IF \E i \in 1..Len(fs) : fs[i].key = k
    THEN fs[CHOOSE i \in 1..Len(fs) : fs[i].key = k].value
    ELSE JUndefined

Range(s) == {s[i] : i \in 1..Len(s)}

----------------------------------------------------------------------------
(* Strings: case conversion *)

\* String.prototype.toUpperCase on the method names of the model.
ToUpperCase(s) ==
    CASE s \in {"post", "Post", "POST"} -> "POST"
      [] s \in {"get", "Get", "GET"} -> "GET"
      [] s \in {"delete", "DELETE"} -> "DELETE"
      [] OTHER -> s

\* Case folding of the regular expression's "i" flag (sensitive: false) on the
\* path segments of the model.
FoldCase(s) ==
    CASE s \in {"item", "Item", "ITEM"} -> "item"
      [] s \in {"api", "API"} -> "api"
      [] s \in {"other", "Other"} -> "other"
      [] OTHER -> s

----------------------------------------------------------------------------
(* Paths *)

StartsWithSlash(p) == Len(p) >= 2 /\ p[1] = ""

EndsWithSlash(p) == Len(p) >= 2 /\ p[Len(p)] = ""

RECURSIVE StripTrailingSlashes(_)
\* path.replace(/\/+$/, '')
StripTrailingSlashes(p) ==
    IF p # <<>> /\ p[Len(p)] = ""
    THEN StripTrailingSlashes(SubSeq(p, 1, Len(p) - 1))
    ELSE p

NonEmptySegments(p) == SelectSeq(p, LAMBDA s : s \notin {"", "."})

\* normalizePath of @nestjs/common: a leading "/" is added and trailing "/"
\* are dropped; runs of "/" are collapsed only when the path already started
\* with "/". The result is the sequence of segments after the leading "/".
normalizePath(p) ==
    IF p = <<>> \/ p = <<"">>
    THEN <<>>
    ELSE IF StartsWithSlash(p)
         THEN SelectSeq(p, LAMBDA s : s # "")
         ELSE StripTrailingSlashes(p)

\* path.join(a, b) of Node: the non-empty arguments joined by "/" and
\* normalised (runs of "/" collapsed, "." segments dropped, one trailing "/"
\* kept, "." for an empty result). ".." segments are not in the model.
pathJoin(a, b) ==
    LET parts == SelectSeq(<<a, b>>, LAMBDA x : x # <<>> /\ x # <<"">>)
        segs == IF parts = <<>> THEN <<>>
                ELSE IF Len(parts) = 1 THEN NonEmptySegments(parts[1])
                ELSE NonEmptySegments(parts[1]) \o NonEmptySegments(parts[2])
        abs == parts # <<>> /\ StartsWithSlash(parts[1])
        trail == parts # <<>> /\ EndsWithSlash(parts[Len(parts)])
    IN  IF segs = <<>>
        THEN (IF abs THEN <<"", "">> ELSE <<".">>)
        ELSE (IF abs THEN <<"">> ELSE <<>>) \o segs
                 \o (IF trail THEN <<"">> ELSE <<>>)

\* The named parameters and the wildcard of the route templates of the model.
ParamSegments == {":id"}

WildcardSegment == "(.*)"

RECURSIVE SegmentsMatch(_, _)
\* The regular expression pathToRegexp builds with sensitive: false,
\* strict: false, end: true, applied to a whole path: a literal segment
\* matches itself whatever the letter case, a named parameter one non-empty
\* segment, a final wildcard everything after its "/", and one trailing "/"
\* is optional.
SegmentsMatch(t, q) ==
    IF t = <<>>
    THEN q = <<>> \/ q = <<"">>
    ELSE IF Head(t) = WildcardSegment /\ Len(t) = 1
         THEN q # <<>>
         ELSE /\ q # <<>>
              /\ IF Head(t) \in ParamSegments
                 THEN Head(q) # ""
                 ELSE FoldCase(Head(t)) = FoldCase(Head(q))
              /\ SegmentsMatch(Tail(t), Tail(q))

\* pathToRegexp(normalizePath(path.join(apiRoutePrefix, rulePath)), [],
\* {...}).exec(extendedPath) is not null.
locationMatches(apiRoutePrefix, rulePath, extendedPath) ==
    SegmentsMatch(normalizePath(pathJoin(apiRoutePrefix, rulePath)), extendedPath)

----------------------------------------------------------------------------
(* Body contract of a PostApi rule *)

\* pathConfig.bodyFields ?? {}
OrEmptyObject(v) == IF v.kind \in {"undefined", "null"} THEN <<>> ELSE v.fields

\* array.find((e) => e == x): the first element equal to x, which is x itself,
\* or undefined when there is none.
Find(array, x) == IF x \in Range(array) THEN JStr(x) ELSE JUndefined

\* requestBodyKey.filter((k) => !bodyFields.find((e) => e == k)): the negation
\* tests the truthiness of the element found.
notAllowedFields(pathConfig, requestBody) ==
    LET bodyFields == ObjectKeys(OrEmptyObject(pathConfig.bodyFields))
    IN  SelectSeq(ObjectKeys(requestBody),
                  LAMBDA k : ~Truthy(Find(bodyFields, k)))

\* bodyFields.filter((field) => (pathConfig.bodyFields ?? {})[field] === true
\*                              && !requestBodyKey.find((k) => k == field))
missingFields(pathConfig, requestBody) ==
    LET declared == OrEmptyObject(pathConfig.bodyFields)
    IN  SelectSeq(ObjectKeys(declared),
                  LAMBDA f : /\ Get(declared, f) = JBool("true")
                             /\ ~Truthy(Find(ObjectKeys(requestBody), f)))

----------------------------------------------------------------------------
(* Outcomes of getRepoPage *)

NoOutcome ==
    [status |-> "none", kind |-> "", fields |-> <<>>, path |-> <<>>,
     value |-> JUndefined]

\* return requestedData
Ok(v) == [NoOutcome EXCEPT !.status = "OK", !.value = v]

\* throw new BadRequestException(...): kind tells which one.
BadRequest(kind, fields) ==
    [NoOutcome EXCEPT !.status = "BadRequest", !.kind = kind, !.fields = fields]

\* throw new NotFoundException() after a failed lookup
NotFoundData == [NoOutcome EXCEPT !.status = "NotFound", !.kind = "data"]

\* Mutant of NotFoundPath: the exception thrown without its message.
NotFoundNoPath(p) == [NoOutcome EXCEPT !.status = "NotFound", !.kind = "data"]

\* throw new NotFoundException(`... current location: ${extendedPath}`)
NotFoundPath(p) ==
    [NoOutcome EXCEPT !.status = "NotFound", !.kind = "path", !.path = p]

\* throw new MethodNotAllowedException()
MethodNotAllowed == [NoOutcome EXCEPT !.status = "MethodNotAllowed"]

\* throw new InternalServerErrorException(), or an exception that is no
\* HttpException (a TypeError, a SyntaxError), which the framework answers
\* with an internal server error.
InternalError(kind) ==
    [NoOutcome EXCEPT !.status = "InternalError", !.kind = kind]

----------------------------------------------------------------------------
(* The two loops of getRepoPage, up to the call of getRequestedData *)

\* What the loops decide: an outcome thrown (tag "throw"), or the rule whose
\* response is to be located (tag "locate"); entry and rule are the indices
\* of the routes entry consulted and of the rule whose path matched (0:
\* none), visited the indices of the rules the inner loop iterated over.
Thrown(o, entry, rule, visited) ==
    [tag |-> "throw", outcome |-> o, entry |-> entry, rule |-> rule,
     visited |-> visited]

Locate(entry, rule, visited) ==
    [tag |-> "locate", outcome |-> NoOutcome, entry |-> entry, rule |-> rule,
     visited |-> visited]

\* Mutant of bodyCheck: the restriction of the body to the declared fields
\* is not enforced.
bodyCheckUnrestricted(pathConfig, requestBody, entry, i, visited) ==
    IF Len(missingFields(pathConfig, requestBody)) > 0
    THEN Thrown(BadRequest("mandatory",
                           missingFields(pathConfig, requestBody)),
                entry, i, visited)
    ELSE Locate(entry, i, visited)

\* The body checks of a PostApi rule whose path matched.
bodyCheck(pathConfig, requestBody, entry, i, visited) ==
    IF pathConfig.restrictedBody
       /\ Len(notAllowedFields(pathConfig, requestBody)) > 0
    THEN Thrown(BadRequest("notAllowed",
                           notAllowedFields(pathConfig, requestBody)),
                entry, i, visited)
    ELSE IF Len(missingFields(pathConfig, requestBody)) > 0
         THEN Thrown(BadRequest("mandatory",
                                missingFields(pathConfig, requestBody)),
                     entry, i, visited)
         ELSE Locate(entry, i, visited)

RECURSIVE ruleLoopLastMatch(_, _, _, _, _, _)
\* Mutant of ruleLoop: a rule whose path matches is passed over while a later
\* rule matches too, so that the last declared match wins.
ruleLoopLastMatch(configData, methodConfig, extendedPath, requestBody, entry, i) ==
    LET visited == [k \in 1..i |-> k]
        pathConfig == methodConfig[i]
        matches(k) ==
            /\ methodConfig[k].type \in {"string", "PostApi"}
            /\ locationMatches(configData.apiRoutePrefix, methodConfig[k].path,
                               extendedPath)
    IN  IF i > Len(methodConfig)
        THEN Thrown(NotFoundPath(extendedPath), entry, 0,
                    [k \in 1..Len(methodConfig) |-> k])
        ELSE IF matches(i) /\ ~\E k \in (i + 1)..Len(methodConfig) : matches(k)
        THEN IF pathConfig.type = "string"
             THEN Locate(entry, i, visited)
             ELSE bodyCheck(pathConfig, requestBody, entry, i, visited)
        ELSE ruleLoopLastMatch(configData, methodConfig, extendedPath,
                               requestBody, entry, i + 1)

RECURSIVE ruleLoop(_, _, _, _, _, _)
\* for (const pathConfig of methodConfig) { ... } throw new NotFoundException
ruleLoop(configData, methodConfig, extendedPath, requestBody, entry, i) ==
    LET visited == [k \in 1..i |-> k]
        pathConfig == methodConfig[i]
    IN  IF i > Len(methodConfig)
        THEN Thrown(NotFoundPath(extendedPath), entry, 0,
                    [k \in 1..Len(methodConfig) |-> k])
        ELSE IF pathConfig.type = "string"
        THEN IF locationMatches(configData.apiRoutePrefix, pathConfig.path,
                                extendedPath)
             THEN Locate(entry, i, visited)
             ELSE ruleLoop(configData, methodConfig, extendedPath,
                           requestBody, entry, i + 1)
        ELSE IF pathConfig.type = "PostApi"
        THEN IF locationMatches(configData.apiRoutePrefix, pathConfig.path,
                                extendedPath)
             THEN bodyCheck(pathConfig, requestBody, entry, i, visited)
             ELSE ruleLoop(configData, methodConfig, extendedPath,
                           requestBody, entry, i + 1)
        ELSE ruleLoop(configData, methodConfig, extendedPath, requestBody,
                      entry, i + 1)

\* Mutant of methodMatches: the method names compared as they are.
methodMatchesExact(method, requestMethod) == method = requestMethod

\* method.toUpperCase() != requestMethod is false
methodMatches(method, requestMethod) == ToUpperCase(method) = requestMethod

RECURSIVE methodLoop(_, _, _, _, _)
\* for (const [method, methodConfig] of Object.entries(configData.routes))
\* { ... } if (!methodFound) throw new MethodNotAllowedException()
methodLoop(configData, requestMethod, param0, requestBody, j) ==
    IF j > Len(configData.routes)
    THEN Thrown(MethodNotAllowed, 0, 0, <<>>)
    ELSE IF ~methodMatches(configData.routes[j].method, requestMethod)
    THEN methodLoop(configData, requestMethod, param0, requestBody, j + 1)
    ELSE IF ~configData.routes[j].isArray
    THEN Thrown(InternalError("methodConfig"), j, 0, <<>>)
    ELSE ruleLoop(configData, configData.routes[j].rules,
                  normalizePath(param0), requestBody, j, 1)

\* getRepoPage from const requestMethod = req.method.toUpperCase() on
resolve(configData, req) ==
    methodLoop(configData, ToUpperCase(req.method), req.path, req.body, 1)

----------------------------------------------------------------------------
(* Response data *)

RECURSIVE getSubRecordFromRoot(_, _)
\* The sub-value of root at the path of keys dbDataPath, undefined when the
\* path has no node.
getSubRecordFromRoot(dbDataPath, root) ==
    IF dbDataPath = <<>>
    THEN root
    ELSE IF root.kind # "object"
         THEN JUndefined
         ELSE getSubRecordFromRoot(Tail(dbDataPath),
                                   Get(root.fields, Head(dbDataPath)))

\* The data document of the model and its text.
DataDocument ==
    JObj(<<Field("data",
                 JObj(<<Field("id", JNum("7")), Field("count", JNum("0")),
                        Field("ok", JBool("false")), Field("name", JStr("")),
                        Field("none", JNull)>>))>>)

DataDocumentText == "{\"data\":{\"id\":7,\"count\":0,\"ok\":false,\"name\":\"\",\"none\":null}}"

\* JSON.parse(rawData): the value of a JSON text, a SyntaxError otherwise.
JSONparse(rawData) ==
    IF rawData = DataDocumentText
    THEN [ok |-> TRUE, value |-> DataDocument]
    ELSE [ok |-> FALSE, value |-> JUndefined]

----------------------------------------------------------------------------
(* Notification target *)

\* Whether new URL(s) accepts s (it throws a TypeError otherwise).
ValidUrl(s) == s \in {"https://example.com/hook", "HTTPS://Example.com"}

\* new URL(s).toString(): the serialised URL, scheme and host in lower case
\* and an empty path as "/".
UrlToString(s) ==
    CASE s = "HTTPS://Example.com" -> "https://example.com/"
      [] OTHER -> s

\* notificationConfig.notificationMethod ?? 'GET'
methodOrGet(notificationMethod) ==
    IF notificationMethod.kind \in {"undefined", "null"}
    THEN "GET"
    ELSE notificationMethod.lit

\* Mutant of newTimer: the delay given in seconds where setTimeout takes
\* milliseconds.
newTimerInSeconds(owner, notificationConfig, endPoint) ==
    [owner |-> owner,
     delay |-> notificationConfig.timeoutInSecond,
     elapsed |-> 0,
     method |-> methodOrGet(notificationConfig.notificationMethod),
     url |-> UrlToString(endPoint),
     timeout |-> CallTimeoutMs,
     state |-> "pending"]

\* The timer setTimeout registers: after delay milliseconds its callback
\* issues axios.request({method, url, timeout}).
newTimer(owner, notificationConfig, endPoint) ==
    [owner |-> owner,
     delay |-> notificationConfig.timeoutInSecond * MsPerSecond,
     elapsed |-> 0,
     method |-> methodOrGet(notificationConfig.notificationMethod),
     url |-> UrlToString(endPoint),
     timeout |-> CallTimeoutMs,
     state |-> "pending"]

\* if (notificationConfig && requestBody[notificationConfig.followProp])
notificationDue(pathConfig, requestBody) ==
    /\ pathConfig.type = "PostApi"
    /\ pathConfig.scheduleNotification.defined
    /\ Truthy(Get(requestBody, pathConfig.scheduleNotification.followProp))

----------------------------------------------------------------------------
(* State *)

NoConfig ==
    [apiRoutePrefix |-> <<>>, dbFile |-> "", dbDataPath |-> <<>>,
     routes |-> <<>>, asRecord |-> JUndefined]

\* A request slot before its request arrives.
IdleRequest ==
    [pc |-> "idle", method |-> "", path |-> <<>>, body |-> <<>>,
     cfg |-> NoConfig, entry |-> 0, rule |-> 0, visited |-> <<>>,
     locates |-> 0, fetches |-> 0, outcome |-> NoOutcome]

Init ==
    /\ reqs = [r \in {"r1"} |-> IdleRequest]
    /\ timers = <<>>
    /\ alive = TRUE

InitConcurrent ==
    /\ reqs = [r \in {"r1", "r2"} |-> IdleRequest]
    /\ timers = <<>>
    /\ alive = TRUE

Done(q, o) == [q EXCEPT !.pc = "done", !.outcome = o]

\* The rule a request is committed to.
RuleOf(q) == q.cfg.routes[q.entry].rules[q.rule]

----------------------------------------------------------------------------
(* getRepoPage *)

\* The rest of getRepoPage once getRequestedData has answered requestedData:
\* the not-found test, the arming of the notification, the return.
finish(r, q, requestedData) ==
    LET pathConfig == RuleOf(q)
        endPoint == Get(q.body, pathConfig.scheduleNotification.followProp)
    IN  IF ~Truthy(requestedData)
        THEN /\ reqs' = [reqs EXCEPT ![r] = Done(q, NotFoundData)]
             /\ UNCHANGED timers
        ELSE IF notificationDue(pathConfig, q.body)
        THEN IF ~ValidUrl(endPoint.lit)
             THEN /\ reqs' = [reqs EXCEPT ![r] =
                                  Done(q, InternalError("TypeError"))]
                  /\ UNCHANGED timers
             ELSE /\ timers' = Append(timers,
                                      newTimer(r, pathConfig.scheduleNotification,
                                               endPoint.lit))
                  /\ reqs' = [reqs EXCEPT ![r] = Done(q, Ok(requestedData))]
        ELSE /\ reqs' = [reqs EXCEPT ![r] = Done(q, Ok(requestedData))]
             /\ UNCHANGED timers

\* The request arrives: the handler starts and awaits the configuration file.
Receive(r, inputs) ==
    /\ alive
    /\ reqs[r].pc = "idle"
    /\ \E inp \in inputs :
         reqs' = [reqs EXCEPT ![r] =
                      [@ EXCEPT !.pc = "awaitConfig", !.method = inp.req.method,
                                !.path = inp.req.path, !.body = inp.req.body]]
    /\ UNCHANGED <<timers, alive>>

\* getRawFile fails for both locations of the configuration file.
ConfigFetchFails(r) ==
    /\ alive
    /\ reqs[r].pc = "awaitConfig"
    /\ reqs' = [reqs EXCEPT ![r] = Done(@, BadRequest("configErrors", <<>>))]
    /\ UNCHANGED <<timers, alive>>

\* ApiConfig.loadConfig reports errors in the file.
ConfigInvalid(r) ==
    /\ alive
    /\ reqs[r].pc = "awaitConfig"
    /\ reqs' = [reqs EXCEPT ![r] = Done(@, BadRequest("loadConfig", <<>>))]
    /\ UNCHANGED <<timers, alive>>

\* The configuration is loaded: the loops run, and for the rule selected
\* getRequestedData either answers from the configuration itself or awaits
\* the data file.
ConfigLoaded(r, inputs) ==
    /\ alive
    /\ reqs[r].pc = "awaitConfig"
    /\ \E inp \in inputs :
         /\ inp.req = [method |-> reqs[r].method, path |-> reqs[r].path,
                      body |-> reqs[r].body]
         /\ LET step == resolve(inp.cfg, inp.req)
                q == [reqs[r] EXCEPT !.cfg = inp.cfg, !.entry = step.entry,
                                     !.rule = step.rule,
                                     !.visited = step.visited]
            IN  IF step.tag = "throw"
                THEN /\ reqs' = [reqs EXCEPT ![r] = Done(q, step.outcome)]
                     /\ UNCHANGED timers
                ELSE IF inp.cfg.dbFile = configFileName
                THEN finish(r, [q EXCEPT !.locates = @ + 1],
                            getSubRecordFromRoot(inp.cfg.dbDataPath,
                                                 inp.cfg.asRecord))
                ELSE /\ reqs' = [reqs EXCEPT ![r] =
                                     [q EXCEPT !.pc = "awaitData",
                                               !.locates = @ + 1,
                                               !.fetches = @ + 1]]
                     /\ UNCHANGED timers
    /\ UNCHANGED alive

\* getRawFile fails for both locations of the data file: getRequestedData
\* returns null.
DataFetchFails(r) ==
    /\ alive
    /\ reqs[r].pc = "awaitData"
    /\ finish(r, reqs[r], JNull)
    /\ UNCHANGED alive

\* The data file is retrieved: JSON.parse, then getSubRecordFromRoot.
DataFetched(r) ==
    /\ alive
    /\ reqs[r].pc = "awaitData"
    /\ \E rawData \in {DataDocumentText, "not json"} :
         IF JSONparse(rawData).ok
         THEN finish(r, reqs[r],
                     getSubRecordFromRoot(reqs[r].cfg.dbDataPath,
                                          JSONparse(rawData).value))
         ELSE /\ reqs' = [reqs EXCEPT ![r] =
                              Done(@, InternalError("SyntaxError"))]
              /\ UNCHANGED timers
    /\ UNCHANGED alive

----------------------------------------------------------------------------
(* The notification timer and its call *)

Pending == {i \in 1..Len(timers) : timers[i].state = "pending"}

\* A second passes: no timer that is due is left waiting.
Tick ==
    /\ alive
    /\ Pending # {}
    /\ \A i \in Pending : timers[i].elapsed < timers[i].delay
    /\ timers' = [i \in 1..Len(timers) |->
                     IF i \in Pending
                     THEN [timers[i] EXCEPT !.elapsed = @ + MsPerSecond]
                     ELSE timers[i]]
    /\ UNCHANGED <<reqs, alive>>

\* The timer's callback runs: axios.request is issued, its promise kept by
\* no one.
TimerFires(i) ==
    /\ alive
    /\ timers[i].state = "pending"
    /\ timers[i].elapsed >= timers[i].delay
    /\ timers' = [timers EXCEPT ![i].state = "inflight"]
    /\ UNCHANGED <<reqs, alive>>

\* The call is answered with a 2xx status.
CallSucceeds(i) ==
    /\ alive
    /\ timers[i].state = "inflight"
    /\ timers' = [timers EXCEPT ![i].state = "succeeded"]
    /\ UNCHANGED <<reqs, alive>>

\* What the runtime does with a rejected promise that has no handler: a
\* warning, or (the default since Node.js 15) an uncaught exception that ends
\* the process.
UnhandledRejectionModes == {"warn", "throw"}

\* The process ends: the requests in flight are never answered and the timers
\* still armed never fire.
processExit ==
    /\ alive' = FALSE
    /\ reqs' = [r \in DOMAIN reqs |->
                   IF reqs[r].pc \in {"awaitConfig", "awaitData"}
                   THEN [reqs[r] EXCEPT !.pc = "aborted"]
                   ELSE reqs[r]]

\* The call fails (an error status, no connection, the 5 s timeout): the
\* promise of axios.request rejects and nothing handles the rejection.
CallFails(i) ==
    /\ alive
    /\ timers[i].state = "inflight"
    /\ \E mode \in UnhandledRejectionModes :
         IF mode = "throw"
         THEN /\ processExit
              /\ timers' = [k \in 1..Len(timers) |->
                               IF k = i
                               THEN [timers[k] EXCEPT !.state = "failed"]
                               ELSE IF timers[k].state \in {"pending", "inflight"}
                               THEN [timers[k] EXCEPT !.state = "lost"]
                               ELSE timers[k]]
         ELSE /\ timers' = [timers EXCEPT ![i].state = "failed"]
              /\ UNCHANGED <<reqs, alive>>

----------------------------------------------------------------------------
(* Configurations and requests of the model *)

NoNotification ==
    [defined |-> FALSE, followProp |-> "", notificationMethod |-> JUndefined,
     timeoutInSecond |-> 0]

Notification(followProp, notificationMethod, timeoutInSecond) ==
    [defined |-> TRUE, followProp |-> followProp,
     notificationMethod |-> notificationMethod,
     timeoutInSecond |-> timeoutInSecond]

\* A rule given as a bare path.
StringRule(path) ==
    [type |-> "string", path |-> path, bodyFields |-> JUndefined,
     restrictedBody |-> FALSE, scheduleNotification |-> NoNotification]

\* A rule given as a PostApi.
PostApi(path, bodyFields, restrictedBody, scheduleNotification) ==
    [type |-> "PostApi", path |-> path, bodyFields |-> bodyFields,
     restrictedBody |-> restrictedBody,
     scheduleNotification |-> scheduleNotification]

\* An element of a rule list that is neither a string nor a PostApi.
OtherRule == [StringRule(<<>>) EXCEPT !.type = "other"]

\* An entry of Object.entries(configData.routes).
Entry(method, isArray, rules) ==
    [method |-> method, isArray |-> isArray, rules |-> rules]

Config(apiRoutePrefix, dbFile, dbDataPath, routes) ==
    [apiRoutePrefix |-> apiRoutePrefix, dbFile |-> dbFile,
     dbDataPath |-> dbDataPath, routes |-> routes, asRecord |-> DataDocument]

Request(method, path, body) == [method |-> method, path |-> path, body |-> body]

SeqsUpTo(S, n) == UNION {[1..k -> S] : k \in 0..n}

\* The request bodies with the keys of a set, each key holding 1.
RECURSIVE SortedKeys(_)
SortedKeys(S) ==
    IF S = {} THEN <<>>
    ELSE LET k == CHOOSE x \in S : TRUE
         IN  <<k>> \o SortedKeys(S \ {k})

BodyOf(S) == [i \in 1..Cardinality(S) |-> Field(SortedKeys(S)[i], JNum("1"))]

\* The bodyFields objects over the keys of a set.
BodyFieldsOver(S) ==
    {JObj([i \in 1..Cardinality(S) |->
              Field(SortedKeys(S)[i], JBool(flag[SortedKeys(S)[i]]))]) :
        flag \in [S -> {"true", "false"}]}

ItemId == <<"Item", ":id">>

Item7 == <<"item", "7">>

ItemRest == <<"item", WildcardSegment>>

Other == <<"other">>

DataPaths ==
    {<<"data">>, <<"data", "id">>, <<"data", "count">>, <<"data", "ok">>,
     <<"data", "name">>, <<"data", "none">>, <<"data", "missing">>,
     <<"nope", "x">>}

\* Methods and route tables: which entry, if any, is consulted.
RouteInputs ==
    LET configs == {Entry(m, a, l) :
                      m \in {"post", "Post", "get"},
                      a \in {TRUE},
                      l \in {<<>>, <<StringRule(ItemId)>>,
                             <<PostApi(Item7, JUndefined, FALSE, NoNotification)>>}}
                   \cup {Entry(m, FALSE, <<>>) : m \in {"post", "Post", "get"}}
    IN  {[req |-> Request(m, p, BodyOf(keys)),
          cfg |-> Config(<<>>, configFileName, <<"data">>, routes)] :
            m \in {"GET", "POST", "DELETE"},
            p \in {<<"item", "7">>, <<"nope">>},
            keys \in {{}, {"a"}},
            routes \in SeqsUpTo(configs, MaxEntries)}

\* Rule lists: which rule, if any, is selected.
RuleInputs ==
    LET rules == {StringRule(ItemId), StringRule(ItemRest), StringRule(Other),
                  PostApi(Item7, JObj(<<Field("a", JBool("true"))>>), FALSE,
                          NoNotification),
                  PostApi(ItemId, JObj(<<Field("a", JBool("true")),
                                         Field("b", JBool("false"))>>), TRUE,
                          Notification("cb", JUndefined, 0)),
                  OtherRule}
    IN  {[req |-> Request("POST", p, BodyOf(keys)),
          cfg |-> Config(prefix, configFileName, <<"data">>,
                         <<Entry("post", TRUE, list)>>)] :
            p \in {<<"item", "7">>, <<"ITEM", "8", "">>, <<"", "other">>,
                   <<"api", "item", "7">>, <<"item", "7", "x">>, <<"nope">>},
            keys \in {{}, {"a"}, {"a", "z"}},
            prefix \in {<<>>, <<"api">>},
            list \in SeqsUpTo(rules, MaxRules)}

\* Body contracts: the fields reported.
BodyInputs ==
    LET contracts == {JUndefined}
                     \cup UNION {BodyFieldsOver(S) : S \in SUBSET {"a", "b", ""}}
    IN  {[req |-> Request("POST", <<"item", "7">>, BodyOf(keys)),
          cfg |-> Config(<<>>, configFileName, <<"data">>,
                         <<Entry("POST", TRUE,
                                 <<PostApi(Item7, bf, restricted,
                                           NoNotification)>>)>>)] :
            keys \in SUBSET {"a", "b", "z", ""},
            bf \in contracts,
            restricted \in BOOLEAN}

\* Response data: where it is taken from and what it is.
DataInputs ==
    {[req |-> Request("POST", <<"item", "7">>, <<>>),
      cfg |-> Config(<<>>, dbFile, dbDataPath,
                     <<Entry("post", TRUE, <<rule>>)>>)] :
        dbFile \in {configFileName, "db.json"},
        dbDataPath \in DataPaths,
        rule \in {StringRule(Item7),
                  PostApi(Item7, JUndefined, FALSE, NoNotification)}}

\* Notifications: whether one is armed and with what.
NotificationInputs ==
    LET policies == {NoNotification}
                    \cup {Notification("cb", m, t) :
                            m \in {JUndefined, JStr("POST")},
                            t \in 0..MaxTimeout}
        rules == {StringRule(Item7)}
                 \cup {PostApi(Item7, bf, restricted, sn) :
                         bf \in {JUndefined, JObj(<<Field("a", JBool("true"))>>)},
                         restricted \in BOOLEAN,
                         sn \in policies}
        targets == {JStr("https://example.com/hook"), JStr("HTTPS://Example.com"),
                    JStr("example"), JStr(""), JNum("0"), JNum("1")}
        bodies == {BodyOf(keys) : keys \in {{}, {"a"}}}
                  \cup {BodyOf(keys) \o <<Field("cb", v)>> :
                          keys \in {{}, {"a"}}, v \in targets}
    IN  {[req |-> Request("POST", <<"item", "7">>, body),
          cfg |-> Config(<<>>, dbFile, dbDataPath,
                         <<Entry("post", TRUE, <<rule>>)>>)] :
            body \in bodies,
            dbFile \in {configFileName, "db.json"},
            dbDataPath \in {<<"data">>, <<"data", "count">>},
            rule \in rules}

Inputs ==
    RouteInputs \cup RuleInputs \cup BodyInputs \cup DataInputs
        \cup NotificationInputs

\* Two requests at once: a few of the inputs above.
ConcurrentInputs ==
    {inp \in NotificationInputs :
        /\ inp.cfg.dbDataPath = <<"data">>
        /\ inp.req.body \in {<<>>, <<Field("cb", JStr("https://example.com/hook"))>>}
        /\ inp.cfg.routes[1].rules[1] \in
               {StringRule(Item7),
                PostApi(Item7, JUndefined, FALSE,
                        Notification("cb", JUndefined, 1))}}

----------------------------------------------------------------------------
(* Specifications *)

Next ==
    \/ \E r \in DOMAIN reqs : Receive(r, Inputs)
    \/ \E r \in DOMAIN reqs : ConfigFetchFails(r)
    \/ \E r \in DOMAIN reqs : ConfigInvalid(r)
    \/ \E r \in DOMAIN reqs : ConfigLoaded(r, Inputs)
    \/ \E r \in DOMAIN reqs : DataFetchFails(r)
    \/ \E r \in DOMAIN reqs : DataFetched(r)
    \/ Tick
    \/ \E i \in 1..Len(timers) : TimerFires(i)
    \/ \E i \in 1..Len(timers) : CallSucceeds(i)
    \/ \E i \in 1..Len(timers) : CallFails(i)

Spec == Init /\ [][Next]_vars

NextConcurrent ==
    \/ \E r \in DOMAIN reqs : Receive(r, ConcurrentInputs)
    \/ \E r \in DOMAIN reqs : ConfigFetchFails(r)
    \/ \E r \in DOMAIN reqs : ConfigInvalid(r)
    \/ \E r \in DOMAIN reqs : ConfigLoaded(r, ConcurrentInputs)
    \/ \E r \in DOMAIN reqs : DataFetchFails(r)
    \/ \E r \in DOMAIN reqs : DataFetched(r)
    \/ Tick
    \/ \E i \in 1..Len(timers) : TimerFires(i)
    \/ \E i \in 1..Len(timers) : CallSucceeds(i)
    \/ \E i \in 1..Len(timers) : CallFails(i)

SpecConcurrent == InitConcurrent /\ [][NextConcurrent]_vars

----------------------------------------------------------------------------
(* What the claims speak of *)

\* The requests whose configuration was loaded, so that the loops ran.
Resolved == {r \in DOMAIN reqs : reqs[r].cfg # NoConfig}

\* The timers a request armed.
TimersOf(r) == {i \in 1..Len(timers) : timers[i].owner = r}

\* Two method names that differ at most in letter case.
SameIgnoringCase(a, b) ==
    \/ a = b
    \/ \E class \in {{"post", "Post", "POST"}, {"get", "Get", "GET"},
                     {"delete", "DELETE"}} : a \in class /\ b \in class

\* The entries of routes declared for the method of a request.
EntriesFor(q) ==
    {j \in 1..Len(q.cfg.routes) :
        SameIgnoringCase(q.cfg.routes[j].method, q.method)}

Least(S) == CHOOSE x \in S : \A y \in S : x <= y

\* The rules of a list whose full path template matches the request path.
MatchingRules(q, list) ==
    {i \in 1..Len(list) :
        /\ list[i].type \in {"string", "PostApi"}
        /\ locationMatches(q.cfg.apiRoutePrefix, list[i].path,
                           normalizePath(q.path))}

\* The rule list consulted for a request: that of the entry it was given.
ListOf(q) == q.cfg.routes[q.entry].rules

\* The request reached a rule list that is a proper sequence.
InList(q) == q.entry > 0 /\ q.cfg.routes[q.entry].isArray

\* C1: when no key of routes equals the request method up to letter case the
\* outcome is MethodNotAllowed, whatever the path and the body; when some key
\* does, the first such entry is the one consulted and the outcome is not
\* MethodNotAllowed.
C1_MethodNotMatched ==
    \A r \in Resolved :
        LET q == reqs[r]
        IN  /\ EntriesFor(q) = {} =>
                 /\ q.pc = "done"
                 /\ q.outcome = MethodNotAllowed
                 /\ q.entry = 0
            /\ EntriesFor(q) # {} =>
                 /\ q.entry = Least(EntriesFor(q))
                 /\ q.outcome.status # "MethodNotAllowed"

\* A POST request answered from the list declared under "post".
C1_Witness ==
    \E r \in Resolved :
        /\ reqs[r].method = "POST"
        /\ reqs[r].entry > 0
        /\ reqs[r].cfg.routes[reqs[r].entry].method = "post"
        /\ reqs[r].outcome.status = "OK"

\* A request refused for its method although a rule of another method's list
\* matches its path.
C1_WitnessRefused ==
    \E r \in Resolved :
        /\ reqs[r].outcome = MethodNotAllowed
        /\ \E j \in 1..Len(reqs[r].cfg.routes) :
             /\ reqs[r].cfg.routes[j].isArray
             /\ MatchingRules(reqs[r], reqs[r].cfg.routes[j].rules) # {}

\* The indices 1..n in order.
UpTo(n) == [k \in 1..n |-> k]

\* A list with the rules at two places exchanged.
Swapped(list, i, j) == [list EXCEPT ![i] = list[j], ![j] = list[i]]

\* The request of a slot, as it was received.
RequestOf(q) == [method |-> q.method, path |-> q.path, body |-> q.body]

\* A configuration with the rule list consulted for q replaced.
WithList(q, list) == [q.cfg EXCEPT !.routes[q.entry].rules = list]

\* C2: in the rule list of the request's method the rule that decides the
\* outcome is the first one in declared order whose full path template
\* matches the request path: the rules before it were all iterated over
\* without matching, no rule after it is looked at, the outcome is the one the
\* rule gives when it is alone in the list, and with another matching rule
\* exchanged with it that other rule is the one selected.
C2_FirstMatchWins ==
    \A r \in Resolved :
        LET q == reqs[r]
            list == ListOf(q)
            M == MatchingRules(q, list)
            first == Least(M)
            alone == resolve(WithList(q, <<list[first]>>), RequestOf(q))
        IN  InList(q) =>
              /\ M = {} => q.rule = 0 /\ q.visited = UpTo(Len(list))
              /\ M # {} =>
                   /\ q.rule = first
                   /\ q.visited = UpTo(first)
                   /\ alone.tag = "throw" =>
                        q.pc = "done" /\ q.outcome = alone.outcome
                   /\ alone.tag = "locate" => q.locates = 1
                   /\ \A j \in M \ {first} :
                        LET other == resolve(WithList(q, Swapped(list, first, j)),
                                             RequestOf(q))
                        IN  /\ other.rule = first
                            /\ other.visited = UpTo(first)

\* Two rules of different kinds match the path; the first one, a PostApi,
\* refused the body that the second one, a bare path, would have accepted.
C2_Witness ==
    \E r \in Resolved :
        LET q == reqs[r]
        IN  /\ InList(q)
            /\ Cardinality(MatchingRules(q, ListOf(q))) = 2
            /\ ListOf(q)[1].type = "PostApi"
            /\ ListOf(q)[2].type = "string"
            /\ q.rule = 1
            /\ q.outcome.status = "BadRequest"

\* The keys of an object's fields.
KeySet(fs) == {fs[i].key : i \in 1..Len(fs)}

\* The fields a PostApi rule declares, and those it declares mandatory.
Declared(rule) ==
    IF rule.bodyFields.kind = "object" THEN KeySet(rule.bodyFields.fields) ELSE {}

Mandatory(rule) ==
    IF rule.bodyFields.kind = "object"
    THEN {f.key : f \in {g \in Range(rule.bodyFields.fields) :
                            g.value = JBool("true")}}
    ELSE {}

\* The body keys a restricted rule does not declare, and the mandatory fields
\* the body lacks.
Disallowed(rule, body) ==
    IF rule.restrictedBody THEN KeySet(body) \ Declared(rule) ELSE {}

Missing(rule, body) == Mandatory(rule) \ KeySet(body)

\* The first rule whose path matches is a PostApi.
GuardedFirst(q) ==
    /\ InList(q)
    /\ MatchingRules(q, ListOf(q)) # {}
    /\ ListOf(q)[Least(MatchingRules(q, ListOf(q)))].type = "PostApi"

FirstRule(q) == ListOf(q)[Least(MatchingRules(q, ListOf(q)))]

\* C3: when the first rule whose path matches is a PostApi and the body fails
\* its contract, the request ends at once as a bad request: no later rule is
\* looked at, no response data is located or fetched, no timer is armed.
C3_FirstMatchCommits ==
    \A r \in Resolved :
        LET q == reqs[r]
        IN  (/\ GuardedFirst(q)
             /\ Disallowed(FirstRule(q), q.body) \cup Missing(FirstRule(q), q.body)
                    # {})
            => /\ q.pc = "done"
               /\ q.outcome.status = "BadRequest"
               /\ q.outcome.kind \in {"notAllowed", "mandatory"}
               /\ q.rule = Least(MatchingRules(q, ListOf(q)))
               /\ q.visited = UpTo(q.rule)
               /\ q.locates = 0
               /\ q.fetches = 0
               /\ TimersOf(r) = {}

\* A PostApi refused a body while a later bare-path rule matches the path.
C3_Witness ==
    \E r \in Resolved :
        LET q == reqs[r]
        IN  /\ GuardedFirst(q)
            /\ Disallowed(FirstRule(q), q.body) # {}
            /\ Missing(FirstRule(q), q.body) = {}
            /\ q.outcome.status = "BadRequest"
            /\ \E j \in MatchingRules(q, ListOf(q)) :
                 j > q.rule /\ ListOf(q)[j].type = "string"

\* The fields an outcome reports, as a set, each reported once.
Reports(q, S) ==
    /\ KeySet([i \in 1..Len(q.outcome.fields) |-> [key |-> q.outcome.fields[i]]]) = S
    /\ Len(q.outcome.fields) = Cardinality(S)

\* C4: for the PostApi rule that matched, once the restriction check is
\* passed, the request is refused as a bad request exactly when some field
\* declared true is not among the keys of the body, and the refusal lists
\* exactly those fields; a field declared false is never listed.
C4_MandatoryFields ==
    \A r \in Resolved :
        LET q == reqs[r]
            missing == Missing(FirstRule(q), q.body)
        IN  (GuardedFirst(q) /\ Disallowed(FirstRule(q), q.body) = {})
            => /\ missing # {} =>
                    /\ q.pc = "done"
                    /\ q.outcome.status = "BadRequest"
                    /\ q.outcome.kind = "mandatory"
                    /\ Reports(q, missing)
               /\ missing = {} => q.outcome.kind # "mandatory"

\* C4 for the rules none of whose declared fields has the empty name.
C4_NamedFields ==
    \A r \in Resolved :
        LET q == reqs[r]
            missing == Missing(FirstRule(q), q.body)
        IN  (/\ GuardedFirst(q)
             /\ Disallowed(FirstRule(q), q.body) = {}
             /\ "" \notin Declared(FirstRule(q)))
            => /\ missing # {} =>
                    /\ q.pc = "done"
                    /\ q.outcome.status = "BadRequest"
                    /\ q.outcome.kind = "mandatory"
                    /\ Reports(q, missing)
               /\ missing = {} => q.outcome.kind # "mandatory"

\* C5: for the PostApi rule that matched, the request is refused as a bad
\* request listing the body keys the rule does not declare exactly when the
\* rule is restricted and there are such keys, also when mandatory fields
\* are missing too; an unrestricted rule never refuses a body for its
\* undeclared keys.
C5_RestrictedBody ==
    \A r \in Resolved :
        LET q == reqs[r]
            disallowed == Disallowed(FirstRule(q), q.body)
        IN  GuardedFirst(q)
            => /\ disallowed # {} =>
                    /\ q.pc = "done"
                    /\ q.outcome.status = "BadRequest"
                    /\ q.outcome.kind = "notAllowed"
                    /\ Reports(q, disallowed)
               /\ disallowed = {} => q.outcome.kind # "notAllowed"

\* C5 for the bodies none of whose keys is the empty name.
C5_NamedFields ==
    \A r \in Resolved :
        LET q == reqs[r]
            disallowed == Disallowed(FirstRule(q), q.body)
        IN  (GuardedFirst(q) /\ "" \notin KeySet(q.body))
            => /\ disallowed # {} =>
                    /\ q.pc = "done"
                    /\ q.outcome.status = "BadRequest"
                    /\ q.outcome.kind = "notAllowed"
                    /\ Reports(q, disallowed)
               /\ disallowed = {} => q.outcome.kind # "notAllowed"

\* The node of the configuration document at dbDataPath.
ConfigNode(q) == getSubRecordFromRoot(q.cfg.dbDataPath, q.cfg.asRecord)

\* The request got as far as locating its response in the configuration
\* document itself, with no notification to arm.
LocatedInConfig(q) ==
    /\ q.locates > 0
    /\ q.cfg.dbFile = configFileName
    /\ ~notificationDue(RuleOf(q), q.body)

\* C6: when dbFile is the configuration file itself and dbDataPath points at
\* an existing node of the configuration document, the value returned is that
\* node, whatever it holds, and no data file is fetched.
C6_RoundTrip ==
    \A r \in Resolved :
        LET q == reqs[r]
        IN  (LocatedInConfig(q) /\ ConfigNode(q).kind # "undefined")
            => /\ q.pc = "done"
               /\ q.outcome = Ok(ConfigNode(q))
               /\ q.fetches = 0

\* C6 for the nodes that hold a truthy value.
C6_TruthyNodes ==
    \A r \in Resolved :
        LET q == reqs[r]
        IN  (LocatedInConfig(q) /\ Truthy(ConfigNode(q)))
            => /\ q.pc = "done"
               /\ q.outcome = Ok(ConfigNode(q))
               /\ q.fetches = 0

\* The value of the body at the followProp of a rule's policy.
Target(rule, body) == Get(body, rule.scheduleNotification.followProp)

\* C7 as claimed: a finished request whose matching rule is a PostApi with a
\* policy and whose body holds a URL at followProp has armed exactly one
\* timer, and any other finished request none.
C7_AsClaimed ==
    \A r \in Resolved :
        LET q == reqs[r]
        IN  q.pc = "done" =>
              IF /\ GuardedFirst(q)
                 /\ FirstRule(q).scheduleNotification.defined
                 /\ Truthy(Target(FirstRule(q), q.body))
                 /\ ValidUrl(Target(FirstRule(q), q.body).lit)
              THEN Cardinality(TimersOf(r)) = 1
              ELSE TimersOf(r) = {}

\* The request was answered with its response through a PostApi rule that
\* has a policy, its body holding a truthy value at followProp.
AnsweredWithPolicy(q) ==
    /\ q.pc = "done"
    /\ q.outcome.status = "OK"
    /\ RuleOf(q).type = "PostApi"
    /\ RuleOf(q).scheduleNotification.defined
    /\ Truthy(Target(RuleOf(q), q.body))

\* C7: a request answered with its response through a PostApi rule with a
\* policy, whose body holds a truthy value at followProp, has armed exactly
\* one timer: it fires timeoutInSecond seconds after it was armed and calls
\* the serialised URL of that value with the policy's method (GET when it
\* has none) and a timeout of 5 seconds. Every other request has armed none.
C7_NotificationArmed ==
    \A r \in DOMAIN reqs :
        LET q == reqs[r]
            policy == RuleOf(q).scheduleNotification
        IN  IF AnsweredWithPolicy(q)
            THEN /\ Cardinality(TimersOf(r)) = 1
                 /\ \A i \in TimersOf(r) :
                      /\ timers[i].delay = policy.timeoutInSecond * 1000
                      /\ timers[i].elapsed <= timers[i].delay
                      /\ timers[i].state \in {"inflight", "succeeded", "failed"}
                           => timers[i].elapsed = policy.timeoutInSecond * 1000
                      /\ timers[i].method =
                           (IF policy.notificationMethod = JUndefined
                            THEN "GET" ELSE policy.notificationMethod.lit)
                      /\ ValidUrl(Target(RuleOf(q), q.body).lit)
                      /\ timers[i].url = UrlToString(Target(RuleOf(q), q.body).lit)
                      /\ timers[i].timeout = 5000
            ELSE TimersOf(r) = {}

\* The call of a policy without a method was made 2 seconds after the
\* request was answered.
C7_Witness ==
    \E r \in DOMAIN reqs : \E i \in TimersOf(r) :
        /\ AnsweredWithPolicy(reqs[r])
        /\ RuleOf(reqs[r]).scheduleNotification.notificationMethod = JUndefined
        /\ RuleOf(reqs[r]).scheduleNotification.timeoutInSecond = 2
        /\ timers[i].state = "succeeded"
        /\ timers[i].method = "GET"

\* C8: a request that passed the body contract of its PostApi rule and
\* located its response, and whose body holds at the policy's followProp a
\* value that is no URL, ends as a bad request and arms no timer.
C8_MalformedTarget ==
    \A r \in Resolved :
        LET q == reqs[r]
        IN  (/\ q.pc = "done"
             /\ q.locates > 0
             /\ q.outcome.status # "NotFound"
             /\ notificationDue(RuleOf(q), q.body)
             /\ ~ValidUrl(Target(RuleOf(q), q.body).lit))
            => /\ q.outcome.status = "BadRequest"
               /\ TimersOf(r) = {}

\* C9: with an entry for the method whose rule list is a sequence none of
\* whose rules matches the path, the outcome is NotFound with the request
\* path; with an entry whose rule list is no sequence it is InternalError;
\* with no entry it is MethodNotAllowed; and in all three no response data
\* is located or fetched and no timer is armed.
C9_NoRuleMatched ==
    \A r \in Resolved :
        LET q == reqs[r]
            entries == EntriesFor(q)
            entry == q.cfg.routes[Least(entries)]
            miss == \/ entries = {}
                    \/ ~entry.isArray
                    \/ MatchingRules(q, entry.rules) = {}
        IN  /\ entries = {} => q.outcome = MethodNotAllowed
            /\ (entries # {} /\ ~entry.isArray) =>
                   q.outcome = InternalError("methodConfig")
            /\ (entries # {} /\ entry.isArray /\ MatchingRules(q, entry.rules) = {})
                   => /\ q.outcome.status = "NotFound"
                      /\ q.outcome.kind = "path"
                      /\ q.outcome.path = normalizePath(q.path)
            /\ miss => /\ q.pc = "done"
                       /\ q.locates = 0
                       /\ q.fetches = 0
                       /\ TimersOf(r) = {}

\* No rule of a non-empty list matched the path, which the outcome carries.
C9_Witness ==
    \E r \in Resolved :
        /\ InList(reqs[r])
        /\ Len(ListOf(reqs[r])) = 2
        /\ reqs[r].visited = <<1, 2>>
        /\ reqs[r].outcome = NotFoundPath(<<"nope">>)

\* C10: a timer that is armed is not dropped before it fires, whatever becomes
\* of the requests, and the failure of a call changes the state of no request.
C10_Detached ==
    [][/\ \A i \in 1..Len(timers) :
            timers[i].state = "pending"
                => timers'[i].state \in {"pending", "inflight"}
       /\ (\E i \in 1..Len(timers) :
              timers[i].state = "inflight" /\ timers'[i].state = "failed")
            => reqs' = reqs]_vars

\* The parts of C10 that do not depend on how a call ends: a request is
\* answered while its timer is still pending, and once answered its outcome
\* never changes.
C10_AnsweredBeforeFiring ==
    \E r \in DOMAIN reqs : \E i \in TimersOf(r) :
        reqs[r].pc = "done" /\ timers[i].state = "pending" /\ timers[i].elapsed = 0

C10_OutcomeKept ==
    [][\A r \in DOMAIN reqs :
          reqs[r].pc = "done" => reqs'[r] = reqs[r]]_vars

====
